---- MODULE Spec2Model ----
(***************************************************************************)
(* Ranking engine of ai-job-match: text normalizer, lexical scorer,       *)
(* weight sanitizer, embedding cache population, vector ranking and the   *)
(* two request handlers (/match and /upload) of app.py.                   *)
(*                                                                         *)
(* Texts are sequences of one-character strings.  Scores are exact         *)
(* rationals <<n, d>> in lowest terms with d > 0 (the code uses IEEE       *)
(* doubles; the model does not reproduce binary rounding error).           *)
(***************************************************************************)
EXTENDS Integers, Sequences, FiniteSets, TLC

VARIABLES jobs_df, HF_AVAILABLE, JOB_EMB_CACHE, files, started, response, call

vars == <<jobs_df, HF_AVAILABLE, JOB_EMB_CACHE, files, started, response, call>>

(***************************************************************************)
(* Bounds of the model.                                                    *)
(***************************************************************************)
MaxJobs == 3
MaxTop == 3
MaxTextLen == 3
MaxQueryLen == 3
MaxRawWeight == 4

(***************************************************************************)
(* Exact rational arithmetic standing for Python floats.                   *)
(***************************************************************************)
Abs(n) == IF n < 0 THEN -n ELSE n

RECURSIVE GCD(_, _)
GCD(a, b) == IF b = 0 THEN a ELSE GCD(b, a % b)

Rat(n, d) ==
    LET g == GCD(Abs(n), Abs(d))
        s == IF d < 0 THEN -1 ELSE 1
    IN  <<(s * n) \div g, (s * d) \div g>>

RAdd(x, y) == Rat(x[1] * y[2] + y[1] * x[2], x[2] * y[2])
RSub(x, y) == Rat(x[1] * y[2] - y[1] * x[2], x[2] * y[2])
RMul(x, y) == Rat(x[1] * y[1], x[2] * y[2])
RDiv(x, y) == Rat(x[1] * y[2], x[2] * y[1])
RLess(x, y) == x[1] * y[2] < y[1] * x[2]
RLeq(x, y) == x[1] * y[2] <= y[1] * x[2]
Zero == <<0, 1>>
One == <<1, 1>>

\* round(x, 4): nearest multiple of 1/10000, ties to the even multiple
round4(x) ==
    LET m == x[1] * 10000
        q == m \div x[2]
        r == m % x[2]
        k == IF 2 * r < x[2] THEN q
             ELSE IF 2 * r > x[2] THEN q + 1
             ELSE IF q % 2 = 0 THEN q ELSE q + 1
    IN  Rat(k, 10000)

(***************************************************************************)
(* utils/text_utils.py                                                     *)
(***************************************************************************)
None == <<"None">>

Whitespace == {" ", "\t", "\n"}
AlphaNum == {"a", "b", "c", "1"}

\* str.lower() on the characters of the model's alphabet
lower(c) ==
    CASE c = "A" -> "a"
      [] c = "B" -> "b"
      [] c = "C" -> "c"
      [] OTHER -> c

\* re.sub(r"[^a-z0-9\s]", " ", s)
RECURSIVE sub_non_alnum(_)
sub_non_alnum(s) ==
    IF s = <<>> THEN <<>>
    ELSE LET c == Head(s)
         IN  <<IF c \in AlphaNum \cup Whitespace THEN c ELSE " ">>
             \o sub_non_alnum(Tail(s))

\* re.sub(r"\s+", " ", s): every maximal run of whitespace becomes one space
RECURSIVE sub_spaces(_)
sub_spaces(s) ==
    IF s = <<>> THEN <<>>
    ELSE IF Head(s) \in Whitespace
         THEN IF Len(s) > 1 /\ s[2] \in Whitespace
              THEN sub_spaces(Tail(s))
              ELSE <<" ">> \o sub_spaces(Tail(s))
         ELSE <<Head(s)>> \o sub_spaces(Tail(s))

RECURSIVE lstrip(_)
lstrip(s) ==
    IF s # <<>> /\ Head(s) \in Whitespace THEN lstrip(Tail(s)) ELSE s

RECURSIVE rstrip(_)
rstrip(s) ==
    IF s # <<>> /\ s[Len(s)] \in Whitespace
    THEN rstrip(SubSeq(s, 1, Len(s) - 1))
    ELSE s

strip(s) == rstrip(lstrip(s))

\* clean_text without the final strip()
clean_text_nostrip(s) ==
    IF s = None \/ s = <<>> THEN <<>>
    ELSE sub_spaces(sub_non_alnum([i \in 1..Len(s) |-> lower(s[i])]))

clean_text(s) ==
    IF s = None \/ s = <<>> THEN <<>>
    ELSE LET s1 == [i \in 1..Len(s) |-> lower(s[i])]
             s2 == sub_non_alnum(s1)
         IN  strip(sub_spaces(s2))

\* str.split(): the maximal runs of non-whitespace characters, in order
RECURSIVE split_from(_, _)
split_from(s, cur) ==
    IF s = <<>> THEN (IF cur = <<>> THEN <<>> ELSE <<cur>>)
    ELSE IF Head(s) \in Whitespace
         THEN (IF cur = <<>> THEN <<>> ELSE <<cur>>) \o split_from(Tail(s), <<>>)
         ELSE split_from(Tail(s), Append(cur, Head(s)))

split(s) == split_from(s, <<>>)

set(seq) == {seq[i] : i \in 1..Len(seq)}

\* the overlap divided by the size of the union instead of the query
simple_match_score_jaccard(text, query) ==
    LET t == set(split(clean_text(text)))
        q == set(split(clean_text(query)))
    IN  IF q = {} THEN Zero
        ELSE Rat(Cardinality(t \cap q), Cardinality(t \cup q))

simple_match_score(text, query) ==
    LET t == set(split(clean_text(text)))
        q == set(split(clean_text(query)))
    IN  IF q = {} THEN Zero
        ELSE Rat(Cardinality(t \cap q), Cardinality(q))

(***************************************************************************)
(* app.py: weight and alpha sanitizers.                                    *)
(* A raw parameter is [k, v]: k = "absent" (None), "junk" (a string float()*)
(* rejects), "nan", "inf", "ninf", or "num" with the rational value v.     *)
(***************************************************************************)
Raw(k, v) == [k |-> k, v |-> v]
Num(n, d) == Raw("num", Rat(n, d))
Absent == Raw("absent", Zero)
Junk == Raw("junk", Zero)
NaN == Raw("nan", Zero)
Inf == Raw("inf", Zero)
NegInf == Raw("ninf", Zero)

\* float(x): raises (here: returns Absent) for None and unparsable strings
float(x) == IF x.k \in {"absent", "junk"} THEN Absent ELSE x

\* x < y on Python floats; every comparison with nan is False
FLess(x, y) ==
    CASE x.k = "nan" \/ y.k = "nan" -> FALSE
      [] x.k = "inf" -> FALSE
      [] y.k = "ninf" -> FALSE
      [] x.k = "ninf" -> TRUE
      [] y.k = "inf" -> TRUE
      [] OTHER -> RLess(x.v, y.v)

\* min(a, b) and max(a, b) of Python: the first argument wins unless the
\* second is strictly smaller (larger)
min(a, b) == IF FLess(b, a) THEN b ELSE a
max(a, b) == IF FLess(a, b) THEN b ELSE a

clamp01(x) == max(Num(0, 1), min(Num(1, 1), x))

DefaultTitleWeight == Rat(4, 10)
DefaultDescWeight == Rat(6, 10)

\* the weights normalized without the clamp to [0,1]
_sanitize_and_normalize_weights_noclamp(title_w, desc_w) ==
    LET t0 == float(title_w)
        d0 == float(desc_w)
    IN  IF t0 = Absent /\ d0 = Absent
        THEN <<DefaultTitleWeight, DefaultDescWeight>>
        ELSE LET t == (IF t0 = Absent THEN Num(0, 1) ELSE t0).v
                 d == (IF d0 = Absent THEN Num(0, 1) ELSE d0).v
                 s == RAdd(t, d)
             IN  IF s = Zero
                 THEN <<DefaultTitleWeight, DefaultDescWeight>>
                 ELSE <<RDiv(t, s), RDiv(d, s)>>

_sanitize_and_normalize_weights(title_w, desc_w) ==
    LET t0 == float(title_w)
        d0 == float(desc_w)
    IN  IF t0 = Absent /\ d0 = Absent
        THEN <<DefaultTitleWeight, DefaultDescWeight>>
        ELSE LET t == clamp01(IF t0 = Absent THEN Num(0, 1) ELSE t0).v
                 d == clamp01(IF d0 = Absent THEN Num(0, 1) ELSE d0).v
                 s == RAdd(t, d)
             IN  IF s = Zero
                 THEN <<DefaultTitleWeight, DefaultDescWeight>>
                 ELSE <<RDiv(t, s), RDiv(d, s)>>

_sanitize_alpha(alpha) ==
    LET a == float(alpha)
    IN  IF a = Absent THEN Rat(1, 2) ELSE clamp01(a).v

(***************************************************************************)
(* utils/embeddings.py                                                     *)
(***************************************************************************)
\* math.sqrt, exact on the perfect squares the model's vectors produce
sqrt(n) == CHOOSE r \in 0..n : r * r <= n /\ n < (r + 1) * (r + 1)

RECURSIVE dot(_, _)
dot(a, b) == IF a = <<>> THEN 0 ELSE a[1] * b[1] + dot(Tail(a), Tail(b))

cosine_similarity(a, b) ==
    IF a = <<>> \/ b = <<>> THEN Zero
    ELSE IF Len(a) # Len(b) THEN Zero
    ELSE LET norm_a == sqrt(dot(a, a))
             norm_b == sqrt(dot(b, b))
         IN  IF norm_a = 0 \/ norm_b = 0 THEN Zero
             ELSE Rat(dot(a, b), norm_a * norm_b)

\* str(row.get("id")) of an integer id
str(id) == ToString(id)

\* model.replace("/", "__").replace(":", "_") inside the cache file name
RECURSIVE safe_name(_)
safe_name(model) ==
    IF model = <<>> THEN <<>>
    ELSE (CASE Head(model) = "/" -> <<"_", "_">>
            [] Head(model) = ":" -> <<"_">>
            [] OTHER -> <<Head(model)>>) \o safe_name(Tail(model))

_cache_path_for_model(model) ==
    <<"embeddings_cache_">> \o safe_name(model) \o <<".json">>

EMBEDDING_MODEL == <<"s", "/", "m">>

\* the model identifiers a process may be configured with (HF_EMBEDDING_MODEL):
\* the default, an identifier without namespace that has "__" where the
\* default has "/", and an unrelated one
Models == {EMBEDDING_MODEL, <<"s", "_", "_", "m">>, <<"t">>}

CachePaths == {_cache_path_for_model(m) : m \in Models}

\* the temporary file written in place: tmp = path
tmp_path_inplace(path) == path

\* tmp = path + ".tmp"
tmp_path(path) == path \o <<".tmp">>

Paths == CachePaths \cup {tmp_path(p) : p \in CachePaths}

\* a dict with string keys is a function; {} is the function of empty domain
EmptyDict == [k \in {} |-> <<>>]
DictSet(dict, key, val) ==
    [k \in DOMAIN dict \cup {key} |-> IF k = key THEN val ELSE dict[k]]

\* the content of a path that does not exist
NoFile == [exists |-> FALSE, data |-> EmptyDict, complete |-> FALSE]

\* a file that holds the whole JSON text of data
File(data) == [exists |-> TRUE, data |-> data, complete |-> TRUE]

\* a file that holds the beginning of a JSON text: the entries of data and no
\* closing brace yet
Partial(data) == [exists |-> TRUE, data |-> data, complete |-> FALSE]

\* json.load raises on a text that is not complete, and load_cache gives {}
load_cache(fs, model) ==
    LET path == _cache_path_for_model(model)
    IN  IF ~fs[path].exists THEN EmptyDict
        ELSE IF ~fs[path].complete THEN EmptyDict
        ELSE fs[path].data

\* disk = "ok": the temporary file is written and renamed over the path;
\* disk = "replace_fails": os.replace raises and the temporary is removed
save_cache(fs, model, cache, disk) ==
    LET path == _cache_path_for_model(model)
    IN  IF disk = "ok" THEN [fs EXCEPT ![path] = File(cache)] ELSE fs

\* What the inference API does for one call: it fails (network, auth, bad
\* response shape, missing API key) or returns a vector.
Fail == <<"fail">>

\* the loop without the "if jid in cache: continue" test
RECURSIVE ensure_loop_reembed(_, _, _, _)
ensure_loop_reembed(jobs, i, cache, outcome) ==
    IF i > Len(jobs) THEN cache
    ELSE IF outcome[i] = Fail
         THEN ensure_loop_reembed(jobs, i + 1, cache, outcome)
         ELSE ensure_loop_reembed(jobs, i + 1,
                                  DictSet(cache, str(jobs[i].id), outcome[i]), outcome)

\* ensure_job_embeddings: the loop over the rows, outcome[i] being what the
\* API does if row i is sent to it (_call_hf_model raises when it is Fail)
RECURSIVE ensure_loop(_, _, _, _)
ensure_loop(jobs, i, cache, outcome) ==
    IF i > Len(jobs) THEN cache
    ELSE LET jid == str(jobs[i].id)
         IN  IF jid = "" THEN ensure_loop(jobs, i + 1, cache, outcome)
             ELSE IF jid \in DOMAIN cache
                  THEN ensure_loop(jobs, i + 1, cache, outcome)
             ELSE IF outcome[i] = Fail
                  THEN ensure_loop(jobs, i + 1, cache, outcome)
             ELSE ensure_loop(jobs, i + 1, DictSet(cache, jid, outcome[i]), outcome)

\* returns <<raised, returned cache, file system afterwards>>;
\* disk = "open_fails": opening the temporary file raises out of save_cache
ensure_job_embeddings(fs, jobs, model, outcome, disk) ==
    LET cache == ensure_loop(jobs, 1, load_cache(fs, model), outcome)
    IN  IF disk = "open_fails" THEN <<TRUE, EmptyDict, fs>>
        ELSE <<FALSE, cache, save_cache(fs, model, cache, disk)>>

Row(id, score) == [id |-> id, score |-> score]

\* sorted(rows, key=lambda r: r["score"], reverse=True): stable, so rows of
\* equal score keep their input order
RECURSIVE insert_desc(_, _)
insert_desc(done, r) ==
    IF done = <<>> THEN <<r>>
    ELSE IF RLess(done[Len(done)].score, r.score)
         THEN Append(insert_desc(SubSeq(done, 1, Len(done) - 1), r), done[Len(done)])
         ELSE Append(done, r)

RECURSIVE sorted_from(_, _)
sorted_from(rows, done) ==
    IF rows = <<>> THEN done
    ELSE sorted_from(Tail(rows), insert_desc(done, Head(rows)))

\* a descending sort that puts a row after the later rows of equal score
RECURSIVE sorted_unstable(_)
sorted_unstable(rows) ==
    IF rows = <<>> THEN <<>>
    ELSE LET rest == sorted_unstable(Tail(rows))
             k == Cardinality({i \in 1..Len(rest) : ~RLess(rest[i].score, Head(rows).score)})
         IN  SubSeq(rest, 1, k) \o <<Head(rows)>> \o SubSeq(rest, k + 1, Len(rest))

sorted_desc(rows) == sorted_from(rows, <<>>)

\* seq[:top] of Python
slice(seq, top) ==
    LET n == Len(seq)
        e == IF top >= 0 THEN (IF top < n THEN top ELSE n)
             ELSE (IF n + top > 0 THEN n + top ELSE 0)
    IN  SubSeq(seq, 1, e)

\* for m in matches: m["score"] = round(m["score"], 4)
round_rows(rows) == [i \in 1..Len(rows) |-> Row(rows[i].id, round4(rows[i].score))]

\* a posting without a cached vector scored 0 instead of skipped
RECURSIVE embedding_rows_zero(_, _, _)
embedding_rows_zero(rows, resume_emb, job_emb_cache) ==
    IF rows = <<>> THEN <<>>
    ELSE LET jid == str(Head(rows).id)
             rest == embedding_rows_zero(Tail(rows), resume_emb, job_emb_cache)
         IN  IF jid \notin DOMAIN job_emb_cache \/ job_emb_cache[jid] = <<>>
             THEN <<[id |-> Head(rows).id, score |-> Zero]>> \o rest
             ELSE <<[id |-> Head(rows).id,
                     score |-> cosine_similarity(resume_emb, job_emb_cache[jid])]>> \o rest

RECURSIVE embedding_rows(_, _, _)
embedding_rows(rows, resume_emb, job_emb_cache) ==
    IF rows = <<>> THEN <<>>
    ELSE LET jid == str(Head(rows).id)
             rest == embedding_rows(Tail(rows), resume_emb, job_emb_cache)
         IN  IF jid \notin DOMAIN job_emb_cache \/ job_emb_cache[jid] = <<>>
             THEN rest
             ELSE <<Row(Head(rows).id,
                        cosine_similarity(resume_emb, job_emb_cache[jid]))>> \o rest

\* returns <<raised, rows>>; embed is what the API does for the resume text
rank_jobs_by_embedding(embed, jobs, job_emb_cache, top) ==
    IF embed = Fail THEN <<TRUE, <<>>>>
    ELSE <<FALSE, slice(sorted_desc(embedding_rows(jobs, embed, job_emb_cache)), top)>>

(***************************************************************************)
(* app.py: the scoring loops and the two handlers.                         *)
(***************************************************************************)
\* title_w * simple_match_score(title, text) + desc_w * simple_match_score(desc, text)
field_score(row, text, title_w, desc_w) ==
    RAdd(RMul(title_w, simple_match_score(row.title, text)),
         RMul(desc_w, simple_match_score(row.description, text)))

keyword_scores(jobs, res_text, title_w, desc_w, topn) ==
    LET results == [i \in 1..Len(jobs) |->
                      Row(jobs[i].id, field_score(jobs[i], res_text, title_w, desc_w))]
    IN  slice(sorted_desc(results), topn)

\* {str(d["id"]): d["score"] for d in rows}: a later row overwrites an earlier
RECURSIVE score_map(_, _)
score_map(rows, acc) ==
    IF rows = <<>> THEN acc
    ELSE score_map(Tail(rows), DictSet(acc, str(Head(rows).id), Head(rows).score))

\* dict.get(key, 0.0)
get_score(map, key) == IF key \in DOMAIN map THEN map[key] ELSE Zero

\* the blend with the two coefficients exchanged
hybrid_scores_swapped(jobs, text, title_w, desc_w, hybrid_alpha, hf, cache, embed, top) ==
    LET kw == keyword_scores(jobs, text, title_w, desc_w, Len(jobs))
        ranked == rank_jobs_by_embedding(embed, jobs, cache, Len(jobs))
        emb == IF hf /\ cache # EmptyDict /\ ~ranked[1] THEN ranked[2] ELSE <<>>
        kw_map == score_map(kw, EmptyDict)
        emb_map == score_map(emb, EmptyDict)
        combined == [i \in 1..Len(jobs) |->
                       LET jid == str(jobs[i].id)
                       IN  Row(jobs[i].id,
                               RAdd(RMul(hybrid_alpha, get_score(kw_map, jid)),
                                    RMul(RSub(One, hybrid_alpha), get_score(emb_map, jid))))]
    IN  round_rows(slice(sorted_desc(combined), top))

hybrid_scores(jobs, text, title_w, desc_w, hybrid_alpha, hf, cache, embed, top) ==
    LET kw == keyword_scores(jobs, text, title_w, desc_w, Len(jobs))
        ranked == rank_jobs_by_embedding(embed, jobs, cache, Len(jobs))
        emb == IF hf /\ cache # EmptyDict /\ ~ranked[1] THEN ranked[2] ELSE <<>>
        kw_map == score_map(kw, EmptyDict)
        emb_map == score_map(emb, EmptyDict)
        combined == [i \in 1..Len(jobs) |->
                       LET jid == str(jobs[i].id)
                       IN  Row(jobs[i].id,
                               RAdd(RMul(RSub(One, hybrid_alpha), get_score(kw_map, jid)),
                                    RMul(hybrid_alpha, get_score(emb_map, jid))))]
    IN  round_rows(slice(sorted_desc(combined), top))

\* the branch "actual == embeddings" of upload_resume
embeddings_mode(jobs, text, title_w, desc_w, hf, cache, embed, top) ==
    IF hf /\ cache # EmptyDict
    THEN LET ranked == rank_jobs_by_embedding(embed, jobs, cache, top)
         IN  IF ranked[1]
             THEN keyword_scores(jobs, text, title_w, desc_w, top)
             ELSE round_rows(ranked[2])
    ELSE keyword_scores(jobs, text, title_w, desc_w, top)

\* the branch "keywords" of upload_resume
keywords_mode(jobs, text, title_w, desc_w, top) ==
    round_rows(keyword_scores(jobs, text, title_w, desc_w, top))

AllowedMethods == {"auto", "keywords", "embeddings", "hybrid"}

\* the mode a request is served in
actual_mode(method_raw, hf, cache) ==
    LET method == IF method_raw \in AllowedMethods THEN method_raw ELSE "auto"
    IN  IF method = "auto"
        THEN (IF hf /\ cache # EmptyDict THEN "embeddings" ELSE "keywords")
        ELSE method

\* request.form.get(name, default): an absent form field takes the default
form_get(raw, default) == IF raw = Absent THEN Raw("num", default) ELSE raw

Response(status, matches) == [status |-> status, matches |-> matches]

upload_resume(jobs, hf, cache, req) ==
    IF req.file \in {"nofile", "noname"} THEN Response("redirect", <<>>)
    ELSE IF req.file = "unsupported" THEN Response("error_page", <<>>)
    ELSE LET w == _sanitize_and_normalize_weights(
                      form_get(req.title_weight, DefaultTitleWeight),
                      form_get(req.description_weight, DefaultDescWeight))
             hybrid_alpha == _sanitize_alpha(form_get(req.hybrid_alpha, Rat(1, 2)))
             actual == actual_mode(req.method, hf, cache)
         IN  Response("results",
               CASE actual = "embeddings" ->
                      embeddings_mode(jobs, req.text, w[1], w[2], hf, cache, req.embed, req.top)
                 [] actual = "hybrid" ->
                      hybrid_scores(jobs, req.text, w[1], w[2], hybrid_alpha, hf, cache,
                                    req.embed, req.top)
                 [] OTHER -> keywords_mode(jobs, req.text, w[1], w[2], req.top))

\* q.strip() of the raw query parameter (absent: "")
match_jobs(jobs, req) ==
    LET q == strip(IF req.q = None THEN <<>> ELSE req.q)
    IN  IF q = <<>> THEN Response("400", <<>>)
        ELSE LET w == _sanitize_and_normalize_weights(req.title_weight, req.description_weight)
                 results == [i \in 1..Len(jobs) |->
                               Row(jobs[i].id, round4(field_score(jobs[i], q, w[1], w[2])))]
             IN  Response("200", slice(sorted_desc(results), req.top))

(***************************************************************************)
(* The catalog (sample_jobs.csv) and the inputs of the model.              *)
(***************************************************************************)
Job(id, title, description) == [id |-> id, title |-> title, description |-> description]

AllJobs ==
    << Job(1, <<"A", " ", "b">>, <<"c", "!">>),
       Job(2, <<"c">>, <<"a", " ", "b">>),
       Job(3, <<>>, <<"a", "\t", "b", " ", "c">>),
       Job(4, <<"b">>, <<"1", ",", "b">>) >>

\* the vectors the inference API may return for a posting when it answers:
\* "ok" is its usual answer, "alt" another answer for the same text; posting 3
\* gets the empty list, which _call_hf_model passes on as a flat vector
JobVector(id, answer) ==
    CASE id = 1 -> <<1, 0>>
      [] id = 2 -> (IF answer = "alt" THEN <<0, 1>> ELSE <<-1, 0>>)
      [] id = 3 -> <<>>
      [] OTHER -> <<3, 4>>

JobAnswers(id) == IF id = 2 THEN {"fail", "ok", "alt"} ELSE {"fail", "ok"}

\* pd.read_csv gives the rows of the file, or no row when it cannot be read
Catalogs == {SubSeq(AllJobs, 1, n) : n \in {0, 1, MaxJobs}}

JobOutcomes(jobs) ==
    {o \in [1..Len(jobs) -> {"fail", "ok", "alt"}] :
        \A i \in 1..Len(jobs) : o[i] \in JobAnswers(jobs[i].id)}

OutcomeOf(jobs, o) ==
    [i \in 1..Len(jobs) |-> IF o[i] = "fail" THEN Fail ELSE JobVector(jobs[i].id, o[i])]

QueryOutcomes == {Fail, <<3, 4>>, <<0, 1>>}

ResumeTexts == { <<"a", " ", "B">>, <<"a", " ", "b", ",", "c">> }

MatchQueries == ResumeTexts \cup { None, <<>>, <<" ", "\t">>, <<"!">>, <<" ", "a", " ">> }

TopValues == {-1, 0, 1, MaxTop}

WeightPairs == { <<Absent, Absent>>, <<Num(2, 1), Num(-1, 1)>> }

\* weights a client may send that put the scores of two postings less than
\* 1/10000 apart: title_weight=0.9999, description_weight=1
CloseWeightPairs == { <<Num(9999, 10000), Num(1, 1)>> }

Alphas == { Num(0, 1), Num(1, 1), Junk }

(***************************************************************************)
(* The process: module import (lines 8-38 of app.py), then requests.       *)
(***************************************************************************)
NoResponse == Response("none", <<>>)

\* no handler is running: requests are served one at a time
Idle == call.fn = "none"

Init ==
    /\ jobs_df \in Catalogs
    /\ HF_AVAILABLE \in BOOLEAN
    /\ JOB_EMB_CACHE = EmptyDict
    /\ files = [p \in Paths |-> NoFile]
    /\ started = FALSE
    /\ response = NoResponse
    /\ call = [fn |-> "none"]

\* a process start without the embeddings module or without an API key
StartupWithoutEmbeddings ==
    /\ Idle
    /\ \E key \in BOOLEAN :
         /\ ~(HF_AVAILABLE /\ key)
         /\ call' = [fn |-> "startup", ran |-> FALSE]
    /\ JOB_EMB_CACHE' = EmptyDict
    /\ started' = TRUE
    /\ response' = NoResponse
    /\ UNCHANGED <<jobs_df, HF_AVAILABLE, files>>

DiskOutcomes == {"ok", "replace_fails", "open_fails"}

\* a process start that runs ensure_job_embeddings(jobs_df, EMBEDDING_MODEL),
\* the disk behaving in one of the ways of disks
StartupWithEmbeddings(disks) ==
    /\ Idle
    /\ HF_AVAILABLE
    /\ \E o \in JobOutcomes(jobs_df), disk \in disks :
         LET outcome == OutcomeOf(jobs_df, o)
             res == ensure_job_embeddings(files, jobs_df, EMBEDDING_MODEL, outcome, disk)
         IN  /\ JOB_EMB_CACHE' = IF res[1] THEN EmptyDict ELSE res[2]
             /\ files' = res[3]
             /\ call' = [fn |-> "startup", ran |-> TRUE, raised |-> res[1],
                         loaded |-> load_cache(files, EMBEDDING_MODEL),
                         outcome |-> outcome]
    /\ started' = TRUE
    /\ response' = NoResponse
    /\ UNCHANGED <<jobs_df, HF_AVAILABLE>>

MatchJobs ==
    /\ Idle
    /\ started
    /\ \E q \in MatchQueries, top \in TopValues, w \in WeightPairs \cup CloseWeightPairs :
         LET req == [fn |-> "match_jobs", q |-> q, top |-> top,
                     title_weight |-> w[1], description_weight |-> w[2]]
         IN  /\ call' = req
             /\ response' = match_jobs(jobs_df, req)
    /\ UNCHANGED <<jobs_df, HF_AVAILABLE, JOB_EMB_CACHE, files, started>>

UploadReq(file, text, top, method, w, alpha, embed) ==
    [fn |-> "upload_resume", file |-> file, text |-> text, top |-> top, method |-> method,
     title_weight |-> w[1], description_weight |-> w[2], hybrid_alpha |-> alpha,
     embed |-> embed]

\* an upload that ends before ranking: no file part, empty file name, or a
\* file parse_resume rejects
UploadRejected ==
    /\ Idle
    /\ started
    /\ \E file \in {"nofile", "noname", "unsupported"} :
         LET req == UploadReq(file, <<>>, 5, "auto", <<Absent, Absent>>, Absent, Fail)
         IN  /\ call' = req
             /\ response' = upload_resume(jobs_df, HF_AVAILABLE, JOB_EMB_CACHE, req)
    /\ UNCHANGED <<jobs_df, HF_AVAILABLE, JOB_EMB_CACHE, files, started>>

UploadResume ==
    /\ Idle
    /\ started
    /\ \E text \in ResumeTexts, top \in TopValues, w \in WeightPairs \cup CloseWeightPairs,
          method \in AllowedMethods, alpha \in Alphas \cup {Absent},
          embed \in QueryOutcomes :
         /\ (method # "hybrid") => alpha = Absent
         \* the blend at alpha 0.5 of scores this close is beyond the integers
         \* of the rational arithmetic: the close weights go with alpha 0 and 1
         /\ (method = "hybrid" /\ w \in CloseWeightPairs) => alpha \in {Num(0, 1), Num(1, 1)}
         /\ (method = "keywords") => embed = Fail
         /\ LET req == UploadReq("ok", text, top, method, w, alpha, embed)
            IN  /\ call' = req
                /\ response' = upload_resume(jobs_df, HF_AVAILABLE, JOB_EMB_CACHE, req)
    /\ UNCHANGED <<jobs_df, HF_AVAILABLE, JOB_EMB_CACHE, files, started>>

\* an upload whose method field is not one of the allowed values
UploadUnknownMethod ==
    /\ Idle
    /\ started
    /\ \E text \in ResumeTexts, top \in TopValues, embed \in QueryOutcomes :
         LET req == UploadReq("ok", text, top, "bogus", <<Absent, Absent>>, Absent, embed)
         IN  /\ call' = req
             /\ response' = upload_resume(jobs_df, HF_AVAILABLE, JOB_EMB_CACHE, req)
    /\ UNCHANGED <<jobs_df, HF_AVAILABLE, JOB_EMB_CACHE, files, started>>

\* the handler (or the import) returns and the process waits for the next event
Return ==
    /\ ~Idle
    /\ call' = [fn |-> "none"]
    /\ response' = NoResponse
    /\ UNCHANGED <<jobs_df, HF_AVAILABLE, JOB_EMB_CACHE, files, started>>

\* The answer to a request depends on the catalog, HF_AVAILABLE and
\* JOB_EMB_CACHE only, and a failing rename leaves the same JOB_EMB_CACHE as a
\* successful one: the requests are explored after starts whose rename
\* succeeds, and SpecCache explores the starts with every disk outcome.
Next ==
    \/ StartupWithoutEmbeddings
    \/ StartupWithEmbeddings({"ok", "open_fails"})
    \/ MatchJobs
    \/ UploadRejected
    \/ UploadResume
    \/ UploadUnknownMethod
    \/ Return

Spec == Init /\ [][Next]_vars

NextCache ==
    \/ StartupWithoutEmbeddings
    \/ StartupWithEmbeddings(DiskOutcomes)
    \/ Return

SpecCache == Init /\ [][NextCache]_vars

(***************************************************************************)
(* The pure functions called directly, on every input of a bounded set.    *)
(***************************************************************************)
Chars == {"a", "B", "1", " ", "\t", "!"}
ScoreChars == {"a", "B", " ", "!"}

Strings(chars, n) == UNION {[1..k -> chars] : k \in 0..n}

Texts == Strings(Chars, MaxTextLen) \cup {None}
Documents == Strings(ScoreChars, MaxTextLen) \cup {None}
Queries == Strings(ScoreChars, MaxQueryLen) \cup {None}

RawWeights ==
    {Absent, Junk, NaN, Inf, NegInf} \cup {Num(n, 2) : n \in (-MaxRawWeight)..MaxRawWeight}

Returned(value) == [status |-> "returned", value |-> value]

InitFn ==
    /\ jobs_df = <<>>
    /\ HF_AVAILABLE = FALSE
    /\ JOB_EMB_CACHE = EmptyDict
    /\ files = [p \in Paths |-> NoFile]
    /\ started = FALSE
    /\ response = NoResponse
    /\ call = [fn |-> "none"]

CallCleanText ==
    /\ Idle
    /\ \E s \in Texts :
         /\ call' = [fn |-> "clean_text", s |-> s]
         /\ response' = Returned(clean_text(s))
    /\ UNCHANGED <<jobs_df, HF_AVAILABLE, JOB_EMB_CACHE, files, started>>

CallSimpleMatchScore ==
    /\ Idle
    /\ \E text \in Documents, query \in Queries :
         /\ call' = [fn |-> "simple_match_score", text |-> text, query |-> query]
         /\ response' = Returned(simple_match_score(text, query))
    /\ UNCHANGED <<jobs_df, HF_AVAILABLE, JOB_EMB_CACHE, files, started>>

CallSanitizeWeights ==
    /\ Idle
    /\ \E title_w \in RawWeights, desc_w \in RawWeights :
         /\ call' = [fn |-> "_sanitize_and_normalize_weights",
                     title_w |-> title_w, desc_w |-> desc_w]
         /\ response' = Returned(_sanitize_and_normalize_weights(title_w, desc_w))
    /\ UNCHANGED <<jobs_df, HF_AVAILABLE, JOB_EMB_CACHE, files, started>>

CallSanitizeAlpha ==
    /\ Idle
    /\ \E alpha \in RawWeights :
         /\ call' = [fn |-> "_sanitize_alpha", alpha |-> alpha]
         /\ response' = Returned(_sanitize_alpha(alpha))
    /\ UNCHANGED <<jobs_df, HF_AVAILABLE, JOB_EMB_CACHE, files, started>>

NextFn ==
    \/ CallCleanText
    \/ CallSimpleMatchScore
    \/ CallSanitizeWeights
    \/ CallSanitizeAlpha
    \/ Return

SpecFn == InitFn /\ [][NextFn]_vars

(***************************************************************************)
(* Properties of the pure functions, under SpecFn.                         *)
(***************************************************************************)
\* the tokens of a text by definition: the maximal runs of letters and
\* digits, lower-cased
IsTokenChar(c) == lower(c) \in AlphaNum

TokenSet(s) ==
    IF s = None THEN {}
    ELSE { [k \in 1..(p[2] - p[1] + 1) |-> lower(s[p[1] + k - 1])] :
             p \in { r \in (1..Len(s)) \X (1..Len(s)) :
                       /\ r[1] <= r[2]
                       /\ \A k \in r[1]..r[2] : IsTokenChar(s[k])
                       /\ (r[1] = 1 \/ ~IsTokenChar(s[r[1] - 1]))
                       /\ (r[2] = Len(s) \/ ~IsTokenChar(s[r[2] + 1])) } }

\* s.split(" "): the pieces between single spaces, empty pieces included
RECURSIVE pieces_from(_, _)
pieces_from(s, cur) ==
    IF s = <<>> THEN <<cur>>
    ELSE IF Head(s) = " " THEN <<cur>> \o pieces_from(Tail(s), <<>>)
         ELSE pieces_from(Tail(s), Append(cur, Head(s)))

\* C10: the output of clean_text holds only a-z, 0-9 and single spaces, has
\* no space at either end and no two spaces in a row, so that cutting it at
\* the spaces gives no empty token; an empty or missing input gives no token.
CleanTextNormalized ==
    call.fn = "clean_text" =>
        LET out == response.value
        IN  /\ \A i \in 1..Len(out) : out[i] \in AlphaNum \cup {" "}
            /\ out # <<>> => (out[1] # " " /\ out[Len(out)] # " ")
            /\ \A i \in 1..(Len(out) - 1) : ~(out[i] = " " /\ out[i + 1] = " ")
            /\ out # <<>> => \A i \in 1..Len(pieces_from(out, <<>>)) :
                                 pieces_from(out, <<>>)[i] # <<>>
            /\ set(split(out)) = TokenSet(call.s)
            /\ call.s \in {None, <<>>} => set(split(out)) = {}

CleanTextWitness ==
    /\ call.fn = "clean_text"
    /\ call.s = <<"\t", "B", "!">>
    /\ response.value = <<"b">>

ZeroLike(x) == x \in {Absent, Junk, Num(0, 1)}

WeightsNormalized ==
    call.fn = "_sanitize_and_normalize_weights" =>
        LET w == response.value
        IN  /\ RLeq(Zero, w[1]) /\ RLeq(w[1], One)
            /\ RLeq(Zero, w[2]) /\ RLeq(w[2], One)
            /\ RAdd(w[1], w[2]) = One
            /\ (ZeroLike(call.title_w) /\ ZeroLike(call.desc_w)) => w = <<Rat(2, 5), Rat(3, 5)>>
            /\ (call.title_w = Num(2, 1) /\ call.desc_w = Num(-1, 1)) => w = <<One, Zero>>

WeightsWitness ==
    /\ call.fn = "_sanitize_and_normalize_weights"
    /\ call.title_w = Num(2, 1)
    /\ call.desc_w = Num(-1, 1)
    /\ response.value = <<One, Zero>>

(***************************************************************************)
(* Properties of the request handlers and of the cache, under Spec.        *)
(***************************************************************************)
Min(a, b) == IF a < b THEN a ELSE b

\* the last event is a request answered with a ranked list
IsRanking ==
    /\ call.fn \in {"match_jobs", "upload_resume"}
    /\ response.status \in {"200", "results"}

\* the last event is an upload that reached the ranking
UploadRanked == call.fn = "upload_resume" /\ call.file = "ok"

ReqWeights ==
    IF call.fn = "match_jobs"
    THEN _sanitize_and_normalize_weights(call.title_weight, call.description_weight)
    ELSE _sanitize_and_normalize_weights(form_get(call.title_weight, DefaultTitleWeight),
                                         form_get(call.description_weight, DefaultDescWeight))

ReqAlpha == _sanitize_alpha(form_get(call.hybrid_alpha, Rat(1, 2)))

\* the lexical ranking of the upload: what method = keywords answers
LexicalRanking == keywords_mode(jobs_df, call.text, ReqWeights[1], ReqWeights[2], call.top)

\* the vector ranking of the upload: what method = embeddings answers
VectorRanking ==
    embeddings_mode(jobs_df, call.text, ReqWeights[1], ReqWeights[2], HF_AVAILABLE,
                    JOB_EMB_CACHE, call.embed, call.top)

VectorUsable == HF_AVAILABLE /\ JOB_EMB_CACHE # EmptyDict

HasKey(id) == str(id) \in DOMAIN JOB_EMB_CACHE
HasVector(id) == HasKey(id) /\ JOB_EMB_CACHE[str(id)] # <<>>

RowHasKey(r) == HasKey(r.id)
RowHasVector(r) == HasVector(r.id)

IsPrefix(a, b) == Len(a) <= Len(b) /\ a = SubSeq(b, 1, Len(a))

\* C1: a ranked list is never longer than min(top_n, |postings|), and it is
\* empty for every top_n <= 0, negative values included.
ResultLengthBounded ==
    IsRanking =>
        /\ call.top >= 0 => Len(response.matches) <= Min(call.top, Len(jobs_df))
        /\ call.top <= 0 => response.matches = <<>>

\* what the slice [:top] does guarantee: the bound for top_n >= 0
ResultLengthBoundedNonNegative ==
    (IsRanking /\ call.top >= 0) =>
        Len(response.matches) <= Min(call.top, Len(jobs_df))

\* C2: the hybrid ranking with hybrid_alpha = 0.0 is the lexical ranking of
\* the same request, whatever the cache holds and whether or not the query
\* embedding succeeds.
HybridAlphaZeroIsLexical ==
    (UploadRanked /\ call.method = "hybrid" /\ ReqAlpha = Zero) =>
        response.matches = LexicalRanking

HybridAlphaZeroWitness ==
    /\ UploadRanked /\ call.method = "hybrid" /\ call.hybrid_alpha = Num(0, 1)
    /\ VectorUsable /\ call.embed = <<3, 4>>
    /\ Len(response.matches) >= 2
    /\ response.matches[1].id # jobs_df[1].id
    /\ response.matches[1].score # Zero
    /\ \E i \in 1..Len(jobs_df) : HasVector(jobs_df[i].id)

\* C3 as stated: the hybrid ranking with hybrid_alpha = 1.0, restricted to the
\* postings with a cached vector, is the vector ranking of the same request
\* (taken where a vector ranking is computed at all, module available, cache
\* not empty and query embedded, and for top_n >= 0).
HybridAlphaOneIsVector ==
    (UploadRanked /\ call.method = "hybrid" /\ ReqAlpha = One
     /\ VectorUsable /\ call.embed # Fail /\ call.top >= 0) =>
        SelectSeq(response.matches, RowHasKey) = VectorRanking

\* C3 as amended: when the embeddings module is available, the cache is not
\* empty and the query embedding succeeds, the hybrid ranking with
\* hybrid_alpha = 1.0 scores 0 every posting without a non-empty cached
\* vector; its restriction to the postings with a non-empty cached vector is a
\* prefix of the untruncated vector ranking for every top_n, a prefix of the
\* vector ranking of the same request for top_n >= 0, and equal to it for
\* top_n >= |postings|.
HybridAlphaOneVectorPrefix ==
    (UploadRanked /\ call.method = "hybrid" /\ ReqAlpha = One
     /\ VectorUsable /\ call.embed # Fail) =>
        LET m == response.matches
        IN  /\ \A i \in 1..Len(m) : ~HasVector(m[i].id) => m[i].score = Zero
            /\ IsPrefix(SelectSeq(m, RowHasVector),
                        embeddings_mode(jobs_df, call.text, ReqWeights[1], ReqWeights[2],
                                        HF_AVAILABLE, JOB_EMB_CACHE, call.embed, Len(jobs_df)))
            /\ call.top >= 0 => IsPrefix(SelectSeq(m, RowHasVector), VectorRanking)
            /\ call.top >= Len(jobs_df) => SelectSeq(m, RowHasVector) = VectorRanking

HybridAlphaOneWitness ==
    /\ UploadRanked /\ call.method = "hybrid" /\ call.hybrid_alpha = Num(1, 1)
    /\ VectorUsable /\ call.embed = <<3, 4>>
    /\ call.top >= Len(jobs_df)
    /\ Len(SelectSeq(response.matches, RowHasVector)) >= 2
    /\ Len(SelectSeq(response.matches, RowHasVector)) < Len(response.matches)
    /\ response.matches[1].score = Rat(3, 5)

\* C4: in modes embeddings and auto, when the cache is empty, the module is
\* unavailable or the query embedding fails, the request is answered with
\* exactly the lexical ranking of the same query, weights and top_n.
FallbackIsLexical ==
    (UploadRanked /\ call.method \in {"embeddings", "auto"}
     /\ (~HF_AVAILABLE \/ JOB_EMB_CACHE = EmptyDict \/ call.embed = Fail)) =>
        /\ response.status = "results"
        /\ response.matches = LexicalRanking

\* C7: a /match query that normalizes to zero tokens is answered with a
\* request error, never with a ranked list.
EmptyQueryIsError ==
    (call.fn = "match_jobs" /\ set(split(clean_text(call.q))) = {}) =>
        response.status = "400"

\* the position of a posting in the catalog
Pos(id) == CHOOSE k \in 1..Len(jobs_df) : jobs_df[k].id = id

JobOf(id) == jobs_df[Pos(id)]

\* the cosine the request computes for a posting, 0 where it computes none
CosineOf(job) ==
    IF VectorUsable /\ call.embed # Fail /\ HasVector(job.id)
    THEN cosine_similarity(call.embed, JOB_EMB_CACHE[str(job.id)])
    ELSE Zero

\* the score the request sorts a posting by
SortKey(job) ==
    IF call.fn = "match_jobs"
    THEN round4(field_score(job, strip(call.q), ReqWeights[1], ReqWeights[2]))
    ELSE LET lexical == field_score(job, call.text, ReqWeights[1], ReqWeights[2])
             actual == actual_mode(call.method, HF_AVAILABLE, JOB_EMB_CACHE)
         IN  CASE actual = "embeddings" /\ VectorUsable /\ call.embed # Fail -> CosineOf(job)
               [] actual = "hybrid" ->
                    RAdd(RMul(RSub(One, ReqAlpha), lexical), RMul(ReqAlpha, CosineOf(job)))
               [] OTHER -> lexical

EnsureAddsOnlyMissing ==
    (call.fn = "startup" /\ call.ran) =>
        LET loaded == call.loaded
            outcome == call.outcome
            new == {i \in 1..Len(jobs_df) :
                      str(jobs_df[i].id) \notin DOMAIN loaded /\ outcome[i] # Fail}
            disk == load_cache(files, EMBEDDING_MODEL)
        IN  /\ ~call.raised =>
                 /\ DOMAIN JOB_EMB_CACHE = DOMAIN loaded \cup {str(jobs_df[i].id) : i \in new}
                 /\ \A k \in DOMAIN loaded : JOB_EMB_CACHE[k] = loaded[k]
                 /\ \A i \in new : JOB_EMB_CACHE[str(jobs_df[i].id)] = outcome[i]
                 /\ disk \in {JOB_EMB_CACHE, loaded}
            /\ call.raised => disk = loaded
            /\ \A k \in DOMAIN loaded : k \in DOMAIN disk /\ disk[k] = loaded[k]

EnsureWitness ==
    /\ call.fn = "startup" /\ call.ran /\ ~call.raised
    /\ \E i, j, k \in 1..Len(jobs_df) :
         /\ i < j
         /\ str(jobs_df[i].id) \notin DOMAIN call.loaded /\ call.outcome[i] = Fail
         /\ str(jobs_df[j].id) \notin DOMAIN call.loaded /\ call.outcome[j] # Fail
         /\ str(jobs_df[j].id) \in DOMAIN JOB_EMB_CACHE
         /\ str(jobs_df[k].id) \in DOMAIN call.loaded
         /\ call.outcome[k] # Fail
         /\ call.outcome[k] # call.loaded[str(jobs_df[k].id)]

(***************************************************************************)
(* utils/embeddings.py called directly with several model identifiers.     *)
(***************************************************************************)
\* the vector the inference API returns for a posting depends on the model:
\* here every other model than the default has two more dimensions
ModelVector(model, id, answer) ==
    IF model = EMBEDDING_MODEL THEN JobVector(id, answer)
    ELSE JobVector(id, answer) \o <<Len(model), 0>>

ModelOutcomeOf(model, jobs, o) ==
    [i \in 1..Len(jobs) |->
       IF o[i] = "fail" THEN Fail ELSE ModelVector(model, jobs[i].id, o[i])]

\* the mapping of the first n postings to their vectors of the model
CacheOf(model, n, answer) ==
    [k \in {str(AllJobs[i].id) : i \in 1..n} |->
       ModelVector(model, (CHOOSE i \in 1..n : str(AllJobs[i].id) = k), answer)]

\* the caches a caller passes to save_cache(model, cache)
SavedCaches(model) == {CacheOf(model, n, a) : n \in 0..MaxJobs, a \in {"ok", "alt"}}

Raised == [status |-> "raised", value |-> EmptyDict]

CallEnsureJobEmbeddings ==
    /\ Idle
    /\ \E model \in Models, jobs \in Catalogs, disk \in DiskOutcomes :
         \E o \in JobOutcomes(jobs) :
           LET res == ensure_job_embeddings(files, jobs, model,
                                            ModelOutcomeOf(model, jobs, o), disk)
           IN  /\ call' = [fn |-> "ensure_job_embeddings", model |-> model]
               /\ response' = IF res[1] THEN Raised ELSE Returned(res[2])
               /\ files' = res[3]
    /\ UNCHANGED <<jobs_df, HF_AVAILABLE, JOB_EMB_CACHE, started>>

CallLoadCache ==
    /\ Idle
    /\ \E model \in Models :
         /\ call' = [fn |-> "load_cache", model |-> model]
         /\ response' = Returned(load_cache(files, model))
    /\ UNCHANGED <<jobs_df, HF_AVAILABLE, JOB_EMB_CACHE, files, started>>

CallSaveCache ==
    /\ Idle
    /\ \E model \in Models, disk \in DiskOutcomes :
         \E cache \in SavedCaches(model) :
           /\ call' = [fn |-> "save_cache", model |-> model]
           /\ response' = IF disk = "open_fails" THEN Raised ELSE Returned(EmptyDict)
           /\ files' = save_cache(files, model, cache, disk)
    /\ UNCHANGED <<jobs_df, HF_AVAILABLE, JOB_EMB_CACHE, started>>

NextModels ==
    \/ CallEnsureJobEmbeddings
    \/ CallLoadCache
    \/ CallSaveCache
    \/ Return

SpecModels == InitFn /\ [][NextModels]_vars

\* the vectors that belong to a model: what the API answers for that model
ModelVectors(model) ==
    {ModelVector(model, AllJobs[i].id, a) : i \in 1..MaxJobs, a \in {"ok", "alt"}}

\* C12: the persisted cache is keyed per model identifier: whatever sequence
\* of save_cache, ensure_job_embeddings and load_cache calls was made, what
\* load_cache(m) returns and what ensure_job_embeddings builds for m holds
\* vectors of m only, never a vector stored under another identifier.
CacheKeyedPerModel ==
    /\ \A m \in Models :
         \A k \in DOMAIN load_cache(files, m) : load_cache(files, m)[k] \in ModelVectors(m)
    /\ (call.fn \in {"load_cache", "ensure_job_embeddings"} /\ response.status = "returned")
         => \A k \in DOMAIN response.value : response.value[k] \in ModelVectors(call.model)

(***************************************************************************)
(* save_cache step by step, with a reader of the same cache file.          *)
(***************************************************************************)
\* the keys of a dict in the order json.dump writes them (insertion order,
\* which is catalog order for a cache ensure_job_embeddings built)
keys_in_order(cache) ==
    LET InCache(k) == k \in DOMAIN cache
    IN  SelectSeq([i \in 1..Len(AllJobs) |-> str(AllJobs[i].id)], InCache)

\* the entries json.dump has written after n of them
dump_prefix(cache, n) ==
    LET keys == keys_in_order(cache)
    IN  [k \in {keys[i] : i \in 1..n} |-> cache[k]]

\* open(tmp, "w"): the file is created, or truncated when it exists
open_tmp(fs, tmp) == [fs EXCEPT ![tmp] = Partial(EmptyDict)]

\* os.replace(tmp, path): one step that gives path the content of tmp and
\* removes the name tmp
os_replace(fs, tmp, path) == [fs EXCEPT ![path] = fs[tmp], ![tmp] = NoFile]

\* os.remove(tmp)
os_remove(fs, tmp) == [fs EXCEPT ![tmp] = NoFile]

SavePath == _cache_path_for_model(call.model)
SaveTmp == tmp_path(SavePath)

\* save_cache(model, cache) is entered; old is the cache file at that moment
SaveCacheBegin ==
    /\ Idle
    /\ \E cache \in SavedCaches(EMBEDDING_MODEL) :
         call' = [fn |-> "save_cache", model |-> EMBEDDING_MODEL, cache |-> cache,
                  pc |-> "open", n |-> 0,
                  old |-> files[_cache_path_for_model(EMBEDDING_MODEL)]]
    /\ response' = NoResponse
    /\ UNCHANGED <<jobs_df, HF_AVAILABLE, JOB_EMB_CACHE, files, started>>

\* with open(tmp, "w") as f: the open succeeds or raises out of save_cache
SaveOpenTmp ==
    /\ call.fn = "save_cache" /\ call.pc = "open"
    /\ \E ok \in BOOLEAN :
         IF ok
         THEN /\ files' = open_tmp(files, SaveTmp)
              /\ call' = [call EXCEPT !.pc = "dump"]
         ELSE /\ files' = files
              /\ call' = [call EXCEPT !.pc = "raised"]
    /\ UNCHANGED <<jobs_df, HF_AVAILABLE, JOB_EMB_CACHE, started, response>>

\* json.dump(cache, f): the next entry reaches the file; after the last one
\* the with-block closes the file and the text is whole; a write may raise
\* (disk full), which leaves the file as it is
SaveDump ==
    /\ call.fn = "save_cache" /\ call.pc = "dump"
    /\ \E ok \in BOOLEAN :
         IF ~ok
         THEN /\ files' = files
              /\ call' = [call EXCEPT !.pc = "raised"]
         ELSE IF call.n < Len(keys_in_order(call.cache))
         THEN /\ files' = [files EXCEPT
                             ![SaveTmp] = Partial(dump_prefix(call.cache, call.n + 1))]
              /\ call' = [call EXCEPT !.n = call.n + 1]
         ELSE /\ files' = [files EXCEPT ![SaveTmp] = File(call.cache)]
              /\ call' = [call EXCEPT !.pc = "replace"]
    /\ UNCHANGED <<jobs_df, HF_AVAILABLE, JOB_EMB_CACHE, started, response>>

\* try: os.replace(tmp, path) / except: os.remove(tmp)
SaveReplace ==
    /\ call.fn = "save_cache" /\ call.pc = "replace"
    /\ \E ok \in BOOLEAN :
         files' = IF ok THEN os_replace(files, SaveTmp, SavePath)
                  ELSE os_remove(files, SaveTmp)
    /\ call' = [call EXCEPT !.pc = "done"]
    /\ UNCHANGED <<jobs_df, HF_AVAILABLE, JOB_EMB_CACHE, started, response>>

\* the process dies between two steps of save_cache: the files stay as they are
SaveCrash ==
    /\ call.fn = "save_cache" /\ call.pc \in {"open", "dump", "replace"}
    /\ call' = [call EXCEPT !.pc = "crashed"]
    /\ UNCHANGED <<jobs_df, HF_AVAILABLE, JOB_EMB_CACHE, files, started, response>>

\* another process calls load_cache(model) at any moment of the save
ReadCache ==
    /\ call.fn = "save_cache"
    /\ response' = Returned(load_cache(files, call.model))
    /\ UNCHANGED <<jobs_df, HF_AVAILABLE, JOB_EMB_CACHE, files, started, call>>

\* save_cache is over: it returned, raised, or its process is gone
SaveReturn ==
    /\ call.fn = "save_cache" /\ call.pc \in {"done", "raised", "crashed"}
    /\ call' = [fn |-> "none"]
    /\ response' = NoResponse
    /\ UNCHANGED <<jobs_df, HF_AVAILABLE, JOB_EMB_CACHE, files, started>>

NextSave ==
    \/ SaveCacheBegin
    \/ SaveOpenTmp
    \/ SaveDump
    \/ SaveReplace
    \/ SaveCrash
    \/ ReadCache
    \/ SaveReturn

SpecSave == InitFn /\ [][NextSave]_vars

\* what load_cache gives for a cache file
Loaded(file) == IF file.exists /\ file.complete THEN file.data ELSE EmptyDict

\* C13: cache persistence is atomic: at every step of save_cache, a crash at
\* any point of it included, the cache file of the model is either as it was
\* when save_cache was entered or holds the complete new mapping, it is never
\* a partly written text, and a load_cache running at any moment of the save
\* returns the previous mapping or the new one.
CachePersistenceAtomic ==
    /\ \A p \in CachePaths : files[p].exists => files[p].complete
    /\ call.fn = "save_cache" =>
         /\ files[SavePath] \in {call.old, File(call.cache)}
         /\ call.pc \in {"open", "dump", "replace", "raised", "crashed"}
              => files[SavePath] = call.old
         /\ response.status = "returned"
              => response.value \in {Loaded(call.old), call.cache}

\* a reader ran while the temporary file held a part of the new mapping, and
\* got the previous mapping, which differs from the new one
CachePersistenceWitness ==
    /\ call.fn = "save_cache" /\ call.pc = "dump" /\ call.n >= 1
    /\ files[SaveTmp] = Partial(dump_prefix(call.cache, call.n))
    /\ call.n < Len(keys_in_order(call.cache))
    /\ call.old.exists /\ call.old.data # EmptyDict /\ call.old.data # call.cache
    /\ response.status = "returned"
    /\ response.value = call.old.data

\* the score of a posting in the mode the request is served in, before any
\* rounding
FullScore(job) ==
    IF call.fn = "match_jobs"
    THEN field_score(job, strip(call.q), ReqWeights[1], ReqWeights[2])
    ELSE LET lexical == field_score(job, call.text, ReqWeights[1], ReqWeights[2])
             actual == actual_mode(call.method, HF_AVAILABLE, JOB_EMB_CACHE)
         IN  CASE actual = "embeddings" /\ VectorUsable /\ call.embed # Fail -> CosineOf(job)
               [] actual = "hybrid" ->
                    RAdd(RMul(RSub(One, ReqAlpha), lexical), RMul(ReqAlpha, CosineOf(job)))
               [] OTHER -> lexical

\* the posting takes part in the ranking: the vector ranking skips a posting
\* without a usable cached vector
IsScored(job) ==
    (/\ call.fn = "upload_resume"
     /\ actual_mode(call.method, HF_AVAILABLE, JOB_EMB_CACHE) = "embeddings"
     /\ VectorUsable /\ call.embed # Fail) => HasVector(job.id)

\* C11: in every ranking path (/match, /upload in lexical, vector and hybrid
\* mode) a posting whose full-precision score is strictly greater than the
\* score of a returned posting is returned too, and before it: it is neither
\* ranked after it nor cut by top_n in its favour.  Stated for top_n >= 0,
\* where the truncation keeps the first top_n rows.
FullPrecisionOrder ==
    (IsRanking /\ call.top >= 0) =>
        LET m == response.matches
        IN  \A i \in 1..Len(m), k \in 1..Len(jobs_df) :
              (/\ IsScored(jobs_df[k])
               /\ RLess(FullScore(JobOf(m[i].id)), FullScore(jobs_df[k])))
                 => \E j \in 1..(i - 1) : m[j].id = jobs_df[k].id

====
